---- MODULE Spec2Model ----
(***************************************************************************)
(* Model of Inacap_to_Google_Calendar.py: the two schedule extractors, the *)
(* weekly capture loop of main, deduplication, the .ics export, the Google *)
(* Calendar push and the exit codes of the process.                        *)
(*                                                                         *)
(* Text is a sequence of tokens (words); the blank token " " stands for a  *)
(* run of whitespace or an HTML entity that limpiar_texto removes.  A      *)
(* snapshot (page_source) is the part of the DOM the extractors select.    *)
(***************************************************************************)
EXTENDS Integers, Sequences, FiniteSets, TLC

\* ------------------------------------------------------------------ bounds
MaxWeeks == 2
MaxRuns == 2

\* ------------------------------------------------------------- text utils
RECURSIVE SinBlancos(_)
SinBlancos(x) ==
    IF x = <<>> THEN <<>>
    ELSE IF Head(x) = " " THEN SinBlancos(Tail(x))
    ELSE <<Head(x)>> \o SinBlancos(Tail(x))

\* limpiar_texto: unescape, collapse whitespace runs, strip.
limpiar_texto(x) == SinBlancos(x)

\* str.lower() on the tokens that occur with capitals in the snapshots.
Lower(tok) ==
    CASE tok = "Sin" -> "sin"
      [] tok = "SIN" -> "sin"
      [] tok = "Clases" -> "clases"
      [] tok = "Feb." -> "feb."
      [] tok = "Ago." -> "ago."
      [] OTHER -> tok

\* contenido.lower().startswith("sin clases")
EmpiezaSinClases(txt) ==
    /\ Len(txt) >= 2
    /\ Lower(txt[1]) = "sin"
    /\ Lower(txt[2]) = "clases"

\* \d{1,2} tokens and their int() value.
Dia12 ==
    [t \in {"0", "03", "04", "08", "10", "15", "30"} |->
        CASE t = "0" -> 0 [] t = "03" -> 3 [] t = "04" -> 4 [] t = "08" -> 8
          [] t = "10" -> 10 [] t = "15" -> 15 [] t = "30" -> 30]

\* \d{4} tokens and their int() value.
Anio4 == [t \in {"2024", "2025"} |-> IF t = "2024" THEN 2024 ELSE 2025]

\* [a-zñ.]+ tokens (after lower()).
EsMesTxt(tok) == tok \in {"feb.", "feb", "ago.", "ago", "febrero", "semana"}

\* mes_txt.replace(".", "")
SinPuntos(tok) ==
    CASE tok = "feb." -> "feb"
      [] tok = "ago." -> "ago"
      [] OTHER -> tok

MESES ==
    [m \in {"ene", "feb", "mar", "abr", "may", "jun",
            "jul", "ago", "sep", "oct", "nov", "dic"} |->
        CASE m = "ene" -> 1 [] m = "feb" -> 2 [] m = "mar" -> 3 [] m = "abr" -> 4
          [] m = "may" -> 5 [] m = "jun" -> 6 [] m = "jul" -> 7 [] m = "ago" -> 8
          [] m = "sep" -> 9 [] m = "oct" -> 10 [] m = "nov" -> 11 [] m = "dic" -> 12]

\* \d{1,2}:\d{2} tokens with their hour and minute digits.
HoraTok ==
    [t \in {"08:00", "09:30", "10:00", "11:30", "25:00"} |->
        CASE t = "08:00" -> <<8, 0>> [] t = "09:30" -> <<9, 30>>
          [] t = "10:00" -> <<10, 0>> [] t = "11:30" -> <<11, 30>>
          [] t = "25:00" -> <<25, 0>>]

\* ------------------------------------------------------- dates and times
NoError == "none"
FormatError == "ValueError: No pude leer el rango de fechas"
UnknownMonthError == "ValueError: Mes no reconocido"
DateError == "ValueError: day is out of range for month"
TimeError == "ValueError: hour must be in 0..23"

Bisiesto(anio) == (anio % 4 = 0 /\ anio % 100 # 0) \/ anio % 400 = 0

DiasDelMes(anio, mes) ==
    IF mes = 2 THEN (IF Bisiesto(anio) THEN 29 ELSE 28)
    ELSE IF mes \in {4, 6, 9, 11} THEN 30 ELSE 31

\* datetime.date(anio, mes, dia) raises ValueError outside the calendar.
FechaValida(anio, mes, dia) ==
    /\ anio >= 1 /\ anio <= 9999
    /\ mes >= 1 /\ mes <= 12
    /\ dia >= 1 /\ dia <= DiasDelMes(anio, mes)

date(anio, mes, dia) == [y |-> anio, m |-> mes, d |-> dia]

None == [y |-> 0, m |-> 0, d |-> 0]

\* datetime.time(hour, minute) raises ValueError outside 0..23 / 0..59.
HoraValida(hhmm) ==
    /\ HoraTok[hhmm][1] >= 0 /\ HoraTok[hhmm][1] <= 23
    /\ HoraTok[hhmm][2] >= 0 /\ HoraTok[hhmm][2] <= 59

hhmm_to_time(hhmm) == [h |-> HoraTok[hhmm][1], mi |-> HoraTok[hhmm][2], s |-> 0]

\* ---------------------------------------------------- parse_fecha_rango
\* re.search of (\d{1,2})\s*-\s*(\d{1,2})\s+([a-zñ.]+)\.?\s+(\d{4}) at offset k.
RangoEn(txt, k) ==
    /\ k + 4 <= Len(txt)
    /\ txt[k] \in DOMAIN Dia12
    /\ txt[k + 1] = "-"
    /\ txt[k + 2] \in DOMAIN Dia12
    /\ EsMesTxt(Lower(txt[k + 3]))
    /\ txt[k + 4] \in DOMAIN Anio4

\* Result [err, d1, d2, mes, anio]; err # NoError stands for the raise.
parse_fecha_rango(label) ==
    LET ks == {k \in 1..Len(label) : RangoEn(label, k)}
        fallo(e) == [err |-> e, d1 |-> 0, d2 |-> 0, mes |-> 0, anio |-> 0]
    IN  IF ks = {} THEN fallo(FormatError)
        ELSE
          LET k == CHOOSE j \in ks : \A l \in ks : j <= l
              mes_txt == SinPuntos(Lower(label[k + 3]))
          IN  IF mes_txt \notin DOMAIN MESES THEN fallo(UnknownMonthError)
              ELSE [err |-> NoError, d1 |-> Dia12[label[k]],
                    d2 |-> Dia12[label[k + 2]], mes |-> MESES[mes_txt],
                    anio |-> Anio4[label[k + 4]]]

\* ------------------------------------------------------------- RawEvent
\* The tuple (f, t_ini, t_fin, resumen, contenido) of the source.
Evento(f, t_ini, t_fin, resumen, contenido) == <<f, t_ini, t_fin, resumen, contenido>>

\* contenido.split(" / ")[0]: the tokens before the first "/" that has text on
\* both sides; the whole text when there is none.
Resumen(contenido) ==
    LET cortes == {k \in 2..(Len(contenido) - 1) : contenido[k] = "/"}
    IN  IF cortes = {} THEN contenido
        ELSE SubSeq(contenido, 1, (CHOOSE k \in cortes : \A l \in cortes : k <= l) - 1)

Aborta(e) == [err |-> e, evs |-> <<>>]
Devuelve(evs) == [err |-> NoError, evs |-> evs]

\* re.search(r"(\d{1,2})$", h) or re.search(r"\b(\d{1,2})\b", h); -1 for no match.
DiaDeHeader(h) ==
    IF h # <<>> /\ h[Len(h)] \in DOMAIN Dia12 THEN Dia12[h[Len(h)]]
    ELSE LET ks == {k \in 1..Len(h) : h[k] \in DOMAIN Dia12}
         IN  IF ks = {} THEN -1
             ELSE Dia12[h[CHOOSE k \in ks : \A l \in ks : k <= l]]

\* re.search(r"(\d{1,2})$", titulo) of the mobile day title; -1 for no match.
DiaDeTitulo(titulo) ==
    IF titulo # <<>> /\ titulo[Len(titulo)] \in DOMAIN Dia12
    THEN Dia12[titulo[Len(titulo)]] ELSE -1

\* re.match(r"(\d{1,2}:\d{2})\s*-\s*(\d{1,2}:\d{2})", bloque)
EsBloque(bloque) ==
    /\ Len(bloque) >= 3
    /\ bloque[1] \in DOMAIN HoraTok
    /\ bloque[2] = "-"
    /\ bloque[3] \in DOMAIN HoraTok

\* re.match(r"(\d{1,2}:\d{2})\s*-\s*(\d{1,2}:\d{2})\s+(.+)", txt)
EsItem(txt) == EsBloque(txt) /\ Len(txt) >= 4

\* The week's label as the desktop parser reads it (lines 113-117): the label
\* element's text, else the first text node that looks like a range.
EtiquetaDesktop(html) == IF html.label # <<>> THEN html.label ELSE html.nodo

\* Lines 132-135: one date (or None) per header cell; date() may raise.
RECURSIVE Fechas(_, _, _)
Fechas(headers_dias, anio, mes) ==
    IF headers_dias = <<>> THEN [err |-> NoError, fechas |-> <<>>]
    ELSE
      LET dia == DiaDeHeader(Head(headers_dias))
      IN  IF dia # -1 /\ ~FechaValida(anio, mes, dia)
          THEN [err |-> DateError, fechas |-> <<>>]
          ELSE
            LET resto == Fechas(Tail(headers_dias), anio, mes)
                f == IF dia = -1 THEN None ELSE date(anio, mes, dia)
            IN  IF resto.err # NoError THEN resto
                ELSE [err |-> NoError, fechas |-> <<f>> \o resto.fechas]

\* Lines 150-169: the day cells cells[1:] of one row, from index idx (0-based).
RECURSIVE CeldasDeFila(_, _, _, _, _, _, _, _)
CeldasDeFila(celdas, idx, fechas, headers_dias, t_ini, t_fin, anio, mes) ==
    IF celdas = <<>> THEN Devuelve(<<>>)
    ELSE
      LET contenido == limpiar_texto(Head(celdas))
          resto == CeldasDeFila(Tail(celdas), idx + 1, fechas, headers_dias,
                                t_ini, t_fin, anio, mes)
      IN  IF contenido = <<>> \/ EmpiezaSinClases(contenido) THEN resto
          ELSE
            LET enMapa == idx < Len(fechas) /\ fechas[idx + 1] # None
                hh == IF idx < Len(headers_dias) THEN headers_dias[idx + 1] ELSE <<>>
                mm == DiaDeHeader(hh)
            IN  IF ~enMapa /\ mm # -1 /\ ~FechaValida(anio, mes, mm) THEN Aborta(DateError)
                ELSE IF ~enMapa /\ mm = -1 THEN resto
                ELSE IF resto.err # NoError THEN resto
                ELSE
                  LET f == IF enMapa THEN fechas[idx + 1] ELSE date(anio, mes, mm)
                  IN  Devuelve(<<Evento(f, t_ini, t_fin, Resumen(contenido), contenido)>>
                               \o resto.evs)

\* Lines 138-169: the body rows.
RECURSIVE Filas(_, _, _, _, _)
Filas(filas, fechas, headers_dias, anio, mes) ==
    IF filas = <<>> THEN Devuelve(<<>>)
    ELSE
      LET cells == Head(filas)
          bloque == IF cells = <<>> THEN <<>> ELSE limpiar_texto(cells[1])
      IN  IF cells = <<>> \/ ~EsBloque(bloque)
          THEN Filas(Tail(filas), fechas, headers_dias, anio, mes)
          ELSE IF ~HoraValida(bloque[1]) \/ ~HoraValida(bloque[3]) THEN Aborta(TimeError)
          ELSE
            LET fila == CeldasDeFila(Tail(cells), 0, fechas, headers_dias,
                                     hhmm_to_time(bloque[1]), hhmm_to_time(bloque[3]),
                                     anio, mes)
                resto == IF fila.err # NoError THEN fila
                         ELSE Filas(Tail(filas), fechas, headers_dias, anio, mes)
            IN  IF fila.err # NoError THEN fila
                ELSE IF resto.err # NoError THEN resto
                ELSE Devuelve(fila.evs \o resto.evs)

LimpiarTodos(celdas) == [k \in 1..Len(celdas) |-> limpiar_texto(celdas[k])]

\* Lines 120-170, once the label has been parsed.
TablaAEventos(html, anio, mes) ==
    IF ~html.tabla THEN Devuelve(<<>>)
    ELSE IF ~html.thead THEN Devuelve(<<>>)
    ELSE
      LET headers_dias == IF html.header = <<>> THEN <<>>
                          ELSE LimpiarTodos(Tail(html.header))
          fs == Fechas(headers_dias, anio, mes)
      IN  IF fs.err # NoError THEN Aborta(fs.err)
          ELSE Filas(html.filas, fs.fechas, headers_dias, anio, mes)

\* A desktop parser that treats a missing table as a failure.
extraer_sin_tabla_falla(html) ==
    LET r == parse_fecha_rango(EtiquetaDesktop(html))
    IN  IF r.err # NoError THEN Aborta(r.err)
        ELSE IF ~html.tabla \/ ~html.thead THEN Aborta(FormatError)
        ELSE TablaAEventos(html, r.anio, r.mes)

\* Parser desktop: tabla #horario-table.
extraer_eventos_desde_html(html) ==
    LET r == parse_fecha_rango(EtiquetaDesktop(html))
    IN  IF r.err # NoError THEN Aborta(r.err)
        ELSE TablaAEventos(html, r.anio, r.mes)

\* Lines 191-202: the items of one day article.
RECURSIVE Items(_, _)
Items(items, f) ==
    IF items = <<>> THEN Devuelve(<<>>)
    ELSE
      LET txt == limpiar_texto(Head(items))
      IN  IF txt = <<>> \/ EmpiezaSinClases(txt) \/ ~EsItem(txt) THEN Items(Tail(items), f)
          ELSE IF ~HoraValida(txt[1]) \/ ~HoraValida(txt[3]) THEN Aborta(TimeError)
          ELSE
            LET contenido == SubSeq(txt, 4, Len(txt))
                resto == Items(Tail(items), f)
            IN  IF resto.err # NoError THEN resto
                ELSE Devuelve(<<Evento(f, hhmm_to_time(txt[1]), hhmm_to_time(txt[3]),
                                       Resumen(contenido), contenido)>> \o resto.evs)

\* Lines 181-202: the day articles of #scheduleMob.
RECURSIVE Articulos(_, _, _)
Articulos(arts, anio, mes) ==
    IF arts = <<>> THEN Devuelve(<<>>)
    ELSE
      LET art == Head(arts)
          dia == DiaDeTitulo(limpiar_texto(art.titulo))
      IN  IF ~art.conTitulo \/ dia = -1 THEN Articulos(Tail(arts), anio, mes)
          ELSE IF ~FechaValida(anio, mes, dia) THEN Aborta(DateError)
          ELSE
            LET este == Items(art.items, date(anio, mes, dia))
                resto == IF este.err # NoError THEN este
                         ELSE Articulos(Tail(arts), anio, mes)
            IN  IF este.err # NoError THEN este
                ELSE IF resto.err # NoError THEN resto
                ELSE Devuelve(este.evs \o resto.evs)

\* Fallback móvil: lista #scheduleMob con items por día.
extraer_eventos_fallback_movil(html) ==
    LET r == parse_fecha_rango(html.label)
    IN  IF r.err # NoError THEN Aborta(r.err)
        ELSE Articulos(html.mob, r.anio, r.mes)

\* ------------------------------------------------------ .ics generation
TZID == "America/Santiago"

\* fecha.strftime('%Y%m%d')
Ymd(f) == f.y * 10000 + f.m * 100 + f.d

\* t.strftime('%H%M') and t.strftime('%H:%M'): the seconds are not printed.
HM(t) == t.h * 100 + t.mi

\* t.strftime('%H%M%S')
HMS(t) == t.h * 10000 + t.mi * 100 + t.s

\* Line 215: uid = f"inacap-{fecha:%Y%m%d}-{t_ini:%H%M}-{uid_counter}@siga"
UidIcs(fecha, t_ini, uid_counter) == <<"inacap", Ymd(fecha), HM(t_ini), uid_counter, "@siga">>

\* One VEVENT; DTSTAMP (the wall clock of the build) is left out.
construir_evento(uid_counter, resumen, fecha, t_ini, t_fin, descripcion) ==
    [uid |-> UidIcs(fecha, t_ini, uid_counter),
     dtstart |-> <<TZID, Ymd(fecha), HMS(t_ini)>>,
     dtend |-> <<TZID, Ymd(fecha), HMS(t_fin)>>,
     summary |-> resumen,
     description |-> descripcion]

\* Line 252: bloques = [construir_evento(i + 1, ev[3], ev[0], ev[1], ev[2], ev[4]) ...]
Bloques(eventos) ==
    [n \in 1..Len(eventos) |->
        construir_evento((n - 1) + 1, eventos[n][4], eventos[n][1], eventos[n][2],
                         eventos[n][3], eventos[n][5])]

\* ------------------------------------------------------- deduplication
\* A key that leaves the description out.
key_sin_descripcion(ev) == <<Ymd(ev[1]), HM(ev[2]), HM(ev[3]), ev[4]>>

\* Line 446: (ev[0].isoformat(), ev[1] "%H:%M", ev[2] "%H:%M", ev[3], ev[4])
key(ev) == <<Ymd(ev[1]), HM(ev[2]), HM(ev[3]), ev[4], ev[5]>>

\* Line 447: list({key(ev): ev for ev in acumulados}.values()): one entry per
\* key, at the place of the key's first occurrence, holding its last event.
RECURSIVE Deduplicar(_, _)
Deduplicar(acum, vistos) ==
    IF acum = <<>> THEN <<>>
    ELSE
      LET ev == Head(acum)
          resto == Tail(acum)
          ult == {n \in 1..Len(resto) : key(resto[n]) = key(ev)}
          valor == IF ult = {} THEN ev
                   ELSE resto[CHOOSE n \in ult : \A l \in ult : l <= n]
      IN  IF key(ev) \in vistos THEN Deduplicar(resto, vistos)
          ELSE <<valor>> \o Deduplicar(resto, vistos \cup {key(ev)})

\* ------------------------------------------------- Google Calendar push
\* A uid whose counter starts at 0 (enumerate without start=1).
UidPushDesdeCero(f, t_ini, n) == <<"inacap", Ymd(f), HM(t_ini), n - 1, "@siga">>

\* Line 317: uid = f"inacap-{f:%Y%m%d}-{t_ini:%H%M}-{i}@siga", i from enumerate(.., start=1)
UidPush(f, t_ini, n) == <<"inacap", Ymd(f), HM(t_ini), n, "@siga">>

\* Lines 299-302: "inacap-" + sha1(uid).hexdigest(); the digest is taken to be
\* injective on the uids of the model.
event_id_from_uid(uid) == <<"inacap-", <<"sha1">> \o uid>>

\* Lines 320-326: the body sent for event n of eventos.
Body(eventos, n) ==
    LET ev == eventos[n]
    IN  [id |-> event_id_from_uid(UidPush(ev[1], ev[2], n)),
         summary |-> ev[4],
         description |-> ev[5],
         start |-> <<ev[1], ev[2], TZID>>,
         end |-> <<ev[1], ev[3], TZID>>]

\* ------------------------------------------------------------ snapshots
\* What the portal can render for one week: [label, nodo, tabla, thead, header,
\* filas, mob].  label is the text of the range label element (<<>> when it is
\* missing or empty), nodo the first other text node that looks like a range.
EtiquetaFeb == <<"03", "-", "08", "feb.", "2025">>
EtiquetaFeb2 == <<"10", "-", "15", "Feb.", "2025">>
EtiquetaIlegible == <<"semana", "actual">>
EtiquetaMesLargo == <<"03", "-", "08", "febrero", "2025">>

HeaderSemana == << <<"Hora">>, <<"Lunes", "03">>, <<"Martes", "04">> >>
HeaderSemana2 == << <<"Hora">>, <<"Lunes", "10">>, <<"15", "Sab">> >>
HeaderSinNumero == << <<"Hora">>, <<"Lunes", "03">>, <<"Martes">> >>
HeaderDiaInvalido == << <<"Hora">>, <<"Lunes", "03">>, <<"Martes", "30">> >>

FilaClases == << <<"08:00", "-", "09:30">>, <<"Calculo", "/", "Sala">>, <<"Fisica", " ">> >>
FilaSoloMartes == << <<"08:00", "-", "09:30">>, <<" ">>, <<"Fisica">> >>
FilaSoloLunes == << <<"08:00", "-", "09:30">>, <<"Calculo", "/", "Sala">>, <<>> >>
FilaCambioSala == << <<"08:00", "-", "09:30">>, <<"Calculo", "/", "Lab">>, <<>> >>
FilaSinClases == << <<"10:00", "-", "11:30">>, <<"Sin", "clases">>, <<" ">> >>
FilaRecreo == << <<"Recreo">> >>
FilaHoraInvalida == << <<"25:00", "-", "09:30">>, <<"Calculo">>, <<>> >>

ArticuloLunes ==
    [conTitulo |-> TRUE, titulo |-> <<"Lunes", "03">>,
     items |-> << <<"08:00", "-", "09:30", "Calculo", "/", "Sala">>,
                  <<"Sin", "clases">>,
                  <<"Almuerzo">> >>]
ArticuloMartes ==
    [conTitulo |-> TRUE, titulo |-> <<"Martes", "04">>,
     items |-> << <<"10:00", "-", "11:30", "Sin", "clases">>,
                  <<"08:00", "-", "09:30">> >>]
ArticuloSinTitulo ==
    [conTitulo |-> FALSE, titulo |-> <<>>, items |-> << <<"08:00", "-", "09:30", "Fisica">> >>]

Snap(label, nodo, tabla, thead, header, filas, mob) ==
    [label |-> label, nodo |-> nodo, tabla |-> tabla, thead |-> thead,
     header |-> header, filas |-> filas, mob |-> mob]

\* Schedules the portal renders when nothing is wrong with the page.
Horarios ==
    { Snap(EtiquetaFeb, <<>>, TRUE, TRUE, HeaderSemana, <<FilaClases, FilaSinClases>>, <<>>),
      Snap(EtiquetaFeb, <<>>, TRUE, TRUE, HeaderSemana, <<FilaRecreo, FilaSoloMartes>>, <<>>),
      Snap(EtiquetaFeb, <<>>, FALSE, FALSE, <<>>, <<>>, <<ArticuloLunes, ArticuloSinTitulo>>) }

\* Further well-formed schedules: a changed room, the following week.
Variantes ==
    { Snap(EtiquetaFeb, <<>>, TRUE, TRUE, HeaderSemana, <<FilaCambioSala>>, <<>>),
      Snap(EtiquetaFeb2, <<>>, TRUE, TRUE, HeaderSemana2, <<FilaClases>>, <<>>) }

\* Pages with something missing or malformed.
Anomalos ==
    { Snap(EtiquetaFeb, <<>>, FALSE, FALSE, <<>>, <<>>, <<>>),
      Snap(EtiquetaFeb, <<>>, FALSE, FALSE, <<>>, <<>>, <<ArticuloLunes, ArticuloMartes>>),
      Snap(EtiquetaFeb, <<>>, TRUE, FALSE, <<>>, <<FilaClases>>, <<ArticuloLunes>>),
      Snap(<<>>, EtiquetaFeb, FALSE, FALSE, <<>>, <<>>, <<ArticuloLunes>>),
      Snap(<<>>, <<>>, FALSE, FALSE, <<>>, <<>>, <<ArticuloLunes>>),
      Snap(EtiquetaIlegible, <<>>, FALSE, FALSE, <<>>, <<>>, <<ArticuloLunes>>),
      Snap(EtiquetaIlegible, <<>>, TRUE, TRUE, HeaderSemana, <<FilaClases>>, <<>>),
      Snap(EtiquetaMesLargo, <<>>, TRUE, TRUE, HeaderSemana, <<FilaClases>>, <<>>),
      Snap(EtiquetaFeb, <<>>, TRUE, TRUE, HeaderSinNumero, <<FilaClases, FilaSinClases>>, <<>>),
      Snap(EtiquetaFeb, <<>>, TRUE, TRUE, HeaderDiaInvalido, <<FilaSoloLunes>>, <<>>),
      Snap(EtiquetaFeb, <<>>, TRUE, TRUE, HeaderSemana, <<FilaHoraInvalida, FilaClases>>, <<>>) }

Snapshots == Horarios \cup Variantes \cup Anomalos

SinSnapshot == Snap(<<>>, <<>>, FALSE, FALSE, <<>>, <<>>, <<>>)

\* ----------------------------------------------------------------- state
VARIABLES
    pc,          \* position in main
    args,        \* [weeks, push]
    cred,        \* "pendiente" | "ok" | "faltan"
    driver,      \* "none" | "open" | "closed"
    i,           \* loop index of "for i in range(args.weeks)"
    html,        \* the snapshot captured for week i
    htmls,       \* the snapshots captured so far in this run
    desktop,     \* [ran, err, evs]: extraer_eventos_desde_html on html
    movil,       \* [ran, err, evs]: extraer_eventos_fallback_movil on html
    evs,         \* the local evs of the loop body
    acumulados,
    uniq,
    ics,         \* [escrito, bloques]: the exported file
    k,           \* 1-based index of the push loop
    calls,       \* the remote calls of this run, in order: [op, n, id, ok]
    remote,      \* the remote calendar: event id -> body
    ideal,       \* no remote call has failed for another reason than the key
    err,         \* the exception that reached main's handler, or NoError
    shot,        \* save_screenshot has been attempted
    exitCode,    \* -1 while the process runs
    run,         \* number of the current run
    previa,      \* [hay, htmls, uids, ids]: the last run that exported
    portal       \* the snapshots the portal may render

vars == <<pc, args, cred, driver, i, html, htmls, desktop, movil, evs, acumulados,
          uniq, ics, k, calls, remote, ideal, err, shot, exitCode, run, previa, portal>>

NoCorrio == [ran |-> FALSE, err |-> NoError, evs |-> <<>>]
Corrio(r) == [ran |-> TRUE, err |-> r.err, evs |-> r.evs]

RemotoVacio == [id \in {} |-> id]

\* A remote calendar left by an earlier synchronisation of the first schedule.
RemotoPrevio ==
    LET u == Deduplicar(extraer_eventos_desde_html(
                 Snap(EtiquetaFeb, <<>>, TRUE, TRUE, HeaderSemana,
                      <<FilaClases, FilaSinClases>>, <<>>)).evs, {})
    IN  [id \in {Body(u, n).id : n \in 1..Len(u)} |->
            Body(u, CHOOSE n \in 1..Len(u) : Body(u, n).id = id)]

InicioDeCorrida ==
    /\ pc = "inicio"
    /\ args \in [weeks : 1..MaxWeeks, push : BOOLEAN]
    /\ cred = "pendiente"
    /\ driver = "none"
    /\ i = 0
    /\ html = SinSnapshot
    /\ htmls = <<>>
    /\ desktop = NoCorrio
    /\ movil = NoCorrio
    /\ evs = <<>>
    /\ acumulados = <<>>
    /\ uniq = <<>>
    /\ ics = [escrito |-> FALSE, bloques |-> <<>>]
    /\ k = 0
    /\ calls = <<>>
    /\ err = NoError
    /\ shot = FALSE
    /\ exitCode = -1

Init ==
    /\ InicioDeCorrida
    /\ remote \in {RemotoVacio, RemotoPrevio}
    /\ ideal = TRUE
    /\ run = 1
    /\ previa = [hay |-> FALSE, htmls |-> <<>>, uids |-> <<>>]
    /\ portal = Snapshots

InitSync ==
    /\ InicioDeCorrida
    /\ remote = RemotoVacio
    /\ ideal = TRUE
    /\ run = 1
    /\ previa = [hay |-> FALSE, htmls |-> <<>>, uids |-> <<>>]
    /\ portal = Horarios

\* ------------------------------------------------------------------ main
WebDriverError == "WebDriverException"
OSError == "OSError"
RemoteAuthError == "RuntimeError: Falta credentials.json"
HttpError == "HttpError"

\* Lines 393-404: environment first, then the prompt; exit 1 without both.
Credenciales ==
    /\ pc = "inicio"
    /\ \E envUser \in {"", "u"}, envPass \in {"", "p"},
          tecleaUser \in {"", "u"}, tecleaPass \in {"", "p"} :
         LET user == IF envUser # "" THEN envUser ELSE tecleaUser
             pwd == IF envPass # "" THEN envPass ELSE tecleaPass
         IN  IF user = "" \/ pwd = ""
             THEN /\ cred' = "faltan"
                  /\ exitCode' = 1
                  /\ pc' = "fin"
             ELSE /\ cred' = "ok"
                  /\ exitCode' = exitCode
                  /\ pc' = "build"
    /\ UNCHANGED <<args, driver, i, html, htmls, desktop, movil, evs, acumulados, uniq,
                   ics, k, calls, remote, ideal, err, shot, run, previa, portal>>

\* Line 407, outside the try block: a failure to start Chrome is not handled
\* and ends the interpreter with its traceback status, 1.
BuildDriver ==
    /\ pc = "build"
    /\ \/ /\ driver' = "open"
          /\ pc' = "login"
          /\ UNCHANGED <<err, exitCode>>
       \/ /\ driver' = driver
          /\ err' = WebDriverError
          /\ exitCode' = 1
          /\ pc' = "fin"
    /\ UNCHANGED <<args, cred, i, html, htmls, desktop, movil, evs, acumulados, uniq,
                   ics, k, calls, remote, ideal, shot, run, previa, portal>>

\* Line 465: any Exception raised inside the try block lands in the handler.
SaltaAlManejador(e) ==
    /\ pc' = "except"
    /\ err' = e

\* Lines 411-420: login, open the schedule block, click "Hoy" when present.
Login ==
    /\ pc = "login"
    /\ \/ /\ pc' = "capturar"
          /\ err' = err
       \/ SaltaAlManejador(WebDriverError)
    /\ UNCHANGED <<args, cred, driver, i, html, htmls, desktop, movil, evs, acumulados,
                   uniq, ics, k, calls, remote, ideal, shot, exitCode, run, previa, portal>>

\* Lines 425-434: page_source after the settle delay (the debug dump never raises).
CapturarSemana ==
    /\ pc = "capturar"
    /\ \/ /\ \E h \in portal :
               /\ html' = h
               /\ htmls' = Append(htmls, h)
          /\ desktop' = NoCorrio
          /\ movil' = NoCorrio
          /\ evs' = <<>>
          /\ pc' = "desktop"
          /\ err' = err
       \/ /\ SaltaAlManejador(WebDriverError)
          /\ UNCHANGED <<html, htmls, desktop, movil, evs>>
    /\ UNCHANGED <<args, cred, driver, i, acumulados, uniq, ics, k, calls, remote,
                   ideal, shot, exitCode, run, previa, portal>>

\* A caller that always goes on to the mobile parser.
SiempreFallback(e) == TRUE

\* Line 437: if not evs
NecesitaFallback(e) == e = <<>>

\* Line 436 with a caller that swallows the parser's exception for the week.
ExtraerDesktopTolerante ==
    /\ pc = "desktop"
    /\ LET r == extraer_eventos_desde_html(html)
       IN  /\ desktop' = Corrio(r)
           /\ evs' = r.evs
           /\ err' = err
           /\ pc' = IF r.err = NoError /\ NecesitaFallback(r.evs) THEN "movil" ELSE "acumular"
    /\ UNCHANGED <<args, cred, driver, i, html, htmls, movil, acumulados, uniq, ics, k,
                   calls, remote, ideal, shot, exitCode, run, previa, portal>>

\* Lines 436-438: evs = extraer_eventos_desde_html(html)
ExtraerDesktop ==
    /\ pc = "desktop"
    /\ LET r == extraer_eventos_desde_html(html)
       IN  /\ desktop' = Corrio(r)
           /\ IF r.err # NoError
              THEN /\ SaltaAlManejador(r.err)
                   /\ evs' = evs
              ELSE /\ evs' = r.evs
                   /\ err' = err
                   /\ pc' = IF NecesitaFallback(r.evs) THEN "movil" ELSE "acumular"
    /\ UNCHANGED <<args, cred, driver, i, html, htmls, movil, acumulados, uniq, ics, k,
                   calls, remote, ideal, shot, exitCode, run, previa, portal>>

\* Line 439: evs = extraer_eventos_fallback_movil(html)
ExtraerMovil ==
    /\ pc = "movil"
    /\ LET r == extraer_eventos_fallback_movil(html)
       IN  /\ movil' = Corrio(r)
           /\ IF r.err # NoError
              THEN /\ SaltaAlManejador(r.err)
                   /\ evs' = evs
              ELSE /\ evs' = r.evs
                   /\ err' = err
                   /\ pc' = "acumular"
    /\ UNCHANGED <<args, cred, driver, i, html, htmls, desktop, acumulados, uniq, ics, k,
                   calls, remote, ideal, shot, exitCode, run, previa, portal>>

\* Lines 440-443: acumulados.extend(evs); mover_semana unless this is the last week.
Acumular ==
    /\ pc = "acumular"
    /\ acumulados' = acumulados \o evs
    /\ pc' = IF i < args.weeks - 1 THEN "mover" ELSE "dedup"
    /\ UNCHANGED <<args, cred, driver, i, html, htmls, desktop, movil, evs, uniq, ics, k,
                   calls, remote, ideal, err, shot, exitCode, run, previa, portal>>

\* Lines 363-377: click chevron_right and wait for the label.
MoverSemana ==
    /\ pc = "mover"
    /\ \/ /\ i' = i + 1
          /\ pc' = "capturar"
          /\ err' = err
       \/ /\ SaltaAlManejador(WebDriverError)
          /\ i' = i
    /\ UNCHANGED <<args, cred, driver, html, htmls, desktop, movil, evs, acumulados, uniq,
                   ics, k, calls, remote, ideal, shot, exitCode, run, previa, portal>>

\* Lines 446-447.
Dedup ==
    /\ pc = "dedup"
    /\ uniq' = Deduplicar(acumulados, {})
    /\ pc' = "exportar"
    /\ UNCHANGED <<args, cred, driver, i, html, htmls, desktop, movil, evs, acumulados,
                   ics, k, calls, remote, ideal, err, shot, exitCode, run, previa, portal>>

\* Lines 450-457: exportar_ics(uniq, salida=out_path); the write may fail.
ExportarIcs ==
    /\ pc = "exportar"
    /\ \/ /\ ics' = [escrito |-> TRUE, bloques |-> Bloques(uniq)]
          /\ pc' = IF args.push THEN "servicio" ELSE "salir"
          /\ err' = err
       \/ /\ SaltaAlManejador(OSError)
          /\ ics' = ics
    /\ UNCHANGED <<args, cred, driver, i, html, htmls, desktop, movil, evs, acumulados,
                   uniq, k, calls, remote, ideal, shot, exitCode, run, previa, portal>>

\* Line 309: get_calendar_service(); raises without credentials.json.
GetCalendarService ==
    /\ pc = "servicio"
    /\ \/ /\ k' = 1
          /\ pc' = IF uniq = <<>> THEN "salir" ELSE "update"
          /\ err' = err
       \/ /\ SaltaAlManejador(RemoteAuthError)
          /\ k' = k
    /\ UNCHANGED <<args, cred, driver, i, html, htmls, desktop, movil, evs, acumulados,
                   uniq, ics, calls, remote, ideal, shot, exitCode, run, previa, portal>>

Llamada(op, n, id, ok) == [op |-> op, n |-> n, id |-> id, ok |-> ok]

\* The loop goes on with the next event, or push_to_google_calendar returns.
TrasEvento(n) == IF n < Len(uniq) THEN "update" ELSE "salir"

\* An upsert that inserts after every update.
InsertaSiempre(ok, n) == "insert"

\* Lines 327-331: try update; except Exception: insert.
TrasUpdate(ok, n) == IF ok THEN TrasEvento(n) ELSE "insert"

\* Line 328: events().update(calendarId, eventId=event_id, body=body).execute().
\* The service updates an entry it holds; it fails for a key it does not
\* hold, and may fail for any other reason (network, auth, quota).
Update ==
    /\ pc = "update"
    /\ LET b == Body(uniq, k)
       IN  \E ok \in BOOLEAN :
             /\ ok => b.id \in DOMAIN remote
             /\ calls' = Append(calls, Llamada("update", k, b.id, ok))
             /\ remote' = IF ok THEN [remote EXCEPT ![b.id] = b] ELSE remote
             /\ ideal' = (ideal /\ (ok \/ b.id \notin DOMAIN remote))
             /\ pc' = TrasUpdate(ok, k)
             /\ k' = IF TrasUpdate(ok, k) = "insert" THEN k ELSE k + 1
    /\ UNCHANGED <<args, cred, driver, i, html, htmls, desktop, movil, evs, acumulados,
                   uniq, ics, err, shot, exitCode, run, previa, portal>>

\* Line 331: events().insert(calendarId, body=body).execute(), not guarded: the
\* service refuses an id it already holds, and may fail for any other reason.
Insert ==
    /\ pc = "insert"
    /\ LET b == Body(uniq, k)
       IN  \E ok \in BOOLEAN :
             /\ ok => b.id \notin DOMAIN remote
             /\ calls' = Append(calls, Llamada("insert", k, b.id, ok))
             /\ remote' = IF ok THEN (b.id :> b) @@ remote ELSE remote
             /\ ideal' = (ideal /\ (ok \/ b.id \in DOMAIN remote))
             /\ IF ok
                THEN /\ pc' = TrasEvento(k)
                     /\ k' = k + 1
                     /\ err' = err
                ELSE /\ SaltaAlManejador(HttpError)
                     /\ k' = k
    /\ UNCHANGED <<args, cred, driver, i, html, htmls, desktop, movil, evs, acumulados,
                   uniq, ics, shot, exitCode, run, previa, portal>>

\* End of the try block without an exception: finally driver.quit(), status 0.
Salir ==
    /\ pc = "salir"
    /\ exitCode' = 0
    /\ driver' = "closed"
    /\ pc' = "fin"
    /\ UNCHANGED <<args, cred, i, html, htmls, desktop, movil, evs, acumulados, uniq,
                   ics, k, calls, remote, ideal, err, shot, run, previa, portal>>

\* A handler that exits without trying the screenshot.
ManejadorSinCaptura ==
    /\ pc = "except"
    /\ exitCode' = 2
    /\ driver' = "closed"
    /\ pc' = "fin"
    /\ UNCHANGED <<args, cred, i, html, htmls, desktop, movil, evs, acumulados, uniq,
                   ics, k, calls, remote, ideal, err, shot, run, previa, portal>>

\* Lines 465-474: print the error, try save_screenshot (its own failure is
\* swallowed), sys.exit(2), finally driver.quit().
Manejador ==
    /\ pc = "except"
    /\ shot' = TRUE
    /\ exitCode' = 2
    /\ driver' = "closed"
    /\ pc' = "fin"
    /\ UNCHANGED <<args, cred, i, html, htmls, desktop, movil, evs, acumulados, uniq,
                   ics, k, calls, remote, ideal, err, run, previa, portal>>

\* The scheduled job starts the program again, with the same command line,
\* against the same remote calendar.
NuevaCorrida ==
    /\ pc = "fin"
    /\ run < MaxRuns
    /\ run' = run + 1
    /\ previa' = IF ics.escrito
                 THEN [hay |-> TRUE, htmls |-> htmls,
                       uids |-> [n \in 1..Len(ics.bloques) |-> ics.bloques[n].uid]]
                 ELSE previa
    /\ pc' = "inicio"
    /\ cred' = "pendiente"
    /\ driver' = "none"
    /\ i' = 0
    /\ html' = SinSnapshot
    /\ htmls' = <<>>
    /\ desktop' = NoCorrio
    /\ movil' = NoCorrio
    /\ evs' = <<>>
    /\ acumulados' = <<>>
    /\ uniq' = <<>>
    /\ ics' = [escrito |-> FALSE, bloques |-> <<>>]
    /\ k' = 0
    /\ calls' = <<>>
    /\ err' = NoError
    /\ shot' = FALSE
    /\ exitCode' = -1
    /\ UNCHANGED <<args, remote, ideal, portal>>

Next ==
    \/ Credenciales
    \/ BuildDriver
    \/ Login
    \/ CapturarSemana
    \/ ExtraerDesktop
    \/ ExtraerMovil
    \/ Acumular
    \/ MoverSemana
    \/ Dedup
    \/ ExportarIcs
    \/ GetCalendarService
    \/ Update
    \/ Insert
    \/ Salir
    \/ Manejador

NextSync == Next \/ NuevaCorrida

Spec == Init /\ [][Next]_vars

SpecSync == InitSync /\ [][NextSync]_vars

\* =============================================================== claims
Rango(seq) == {seq[n] : n \in 1..Len(seq)}

\* EventIdentity of a RawEvent: (date, start HH:MM, end HH:MM, title, description).
EventIdentity(ev) ==
    <<ev[1], <<ev[2].h, ev[2].mi>>, <<ev[3].h, ev[3].mi>>, ev[4], ev[5]>>

\* The same identity read back from a VEVENT of the exported document.
IdentidadVevento(b) ==
    <<[y |-> b.dtstart[2] \div 10000, m |-> (b.dtstart[2] \div 100) % 100, d |-> b.dtstart[2] % 100],
      <<b.dtstart[3] \div 10000, (b.dtstart[3] \div 100) % 100>>,
      <<b.dtend[3] \div 10000, (b.dtend[3] \div 100) % 100>>,
      b.summary, b.description>>

\* The same identity read back from a remote entry.
IdentidadRemota(body) ==
    <<body.start[1], <<body.start[2].h, body.start[2].mi>>,
      <<body.end[2].h, body.end[2].mi>>, body.summary, body.description>>

ResolverErrors == {FormatError, UnknownMonthError}

\* ---- C1
ElegidosDeLaSemana == IF desktop.evs # <<>> THEN desktop.evs ELSE movil.evs

C1_Estado ==
    /\ pc \in {"movil", "acumular"} => desktop.ran /\ desktop.err = NoError
    /\ movil.ran => desktop.ran /\ desktop.err = NoError /\ desktop.evs = <<>>
    /\ (desktop.ran /\ desktop.err = NoError /\ desktop.evs = <<>> /\ pc # "movil")
          => movil.ran
    /\ pc = "acumular" => evs = ElegidosDeLaSemana

C1_Paso ==
    /\ pc = "acumular" => acumulados' = acumulados \o ElegidosDeLaSemana
    /\ acumulados' # acumulados => pc = "acumular"

\* C1: in every week of main the tabular parser runs first, the mobile parser
\* runs if and only if the tabular parser returned no event, and what the week
\* adds to acumulados is the result of exactly one of the two, never both.
C1_OneStrategyPerWeek == [](C1_Estado) /\ [][C1_Paso]_vars

\* A second week in which the mobile parser supplied the events, after a first
\* week that had supplied some.
C1_Witness ==
    /\ pc = "dedup"
    /\ Len(htmls) = 2
    /\ movil.ran
    /\ movil.evs # <<>>
    /\ Len(acumulados) > Len(movil.evs)

\* ---- C2
PostDedup == pc \in {"exportar", "servicio", "update", "insert", "salir"} \/ ics.escrito

\* C2: after deduplication uniq holds exactly one event per distinct
\* EventIdentity of acumulados and nothing that is not in acumulados, and the
\* exported document holds exactly one VEVENT per distinct identity.
C2_OnePerIdentity ==
    /\ PostDedup =>
         /\ {EventIdentity(e) : e \in Rango(uniq)} = {EventIdentity(e) : e \in Rango(acumulados)}
         /\ \A n, m \in 1..Len(uniq) :
               EventIdentity(uniq[n]) = EventIdentity(uniq[m]) => n = m
         /\ Rango(uniq) \subseteq Rango(acumulados)
    /\ ics.escrito =>
         /\ \A e \in Rango(acumulados) :
               Cardinality({n \in 1..Len(ics.bloques) :
                               IdentidadVevento(ics.bloques[n]) = EventIdentity(e)}) = 1
         /\ \A n \in 1..Len(ics.bloques) :
               \E e \in Rango(acumulados) : IdentidadVevento(ics.bloques[n]) = EventIdentity(e)

\* Two weeks that repeated an event were exported as one document.
C2_Witness ==
    /\ ics.escrito
    /\ Len(htmls) = 2
    /\ Len(uniq) >= 2
    /\ Len(acumulados) > Len(uniq)

\* ---- C3
Updates(n) == {j \in 1..Len(calls) : calls[j].op = "update" /\ calls[j].n = n}
Inserts(n) == {j \in 1..Len(calls) : calls[j].op = "insert" /\ calls[j].n = n}

\* push_to_google_calendar has ended: it returned, or an insert raised.
PushTermino ==
    /\ args.push
    /\ k >= 1
    /\ pc \in {"salir", "fin"} \/ (pc = "except" /\ err = HttpError)

\* C3 as stated: once the push has ended, every deduplicated event has had
\* exactly one update call, and one insert call exactly when its update failed.
C3_Original ==
    PushTermino =>
      \A n \in 1..Len(uniq) :
         /\ Cardinality(Updates(n)) = 1
         /\ Cardinality(Inserts(n)) =
               (IF \E j \in Updates(n) : ~calls[j].ok THEN 1 ELSE 0)

\* The calls of the run follow the upsert protocol, one event after another.
C3_Protocolo ==
    /\ calls # <<>> => calls[1].op = "update" /\ calls[1].n = 1
    /\ \A j \in 1..Len(calls) :
          /\ calls[j].n \in 1..Len(uniq)
          /\ calls[j].id = event_id_from_uid(UidPush(uniq[calls[j].n][1], uniq[calls[j].n][2],
                                                      calls[j].n))
    /\ \A j \in 1..(Len(calls) - 1) :
          LET a == calls[j]
              b == calls[j + 1]
          IN  IF a.op = "update" /\ ~a.ok
              THEN b.op = "insert" /\ b.n = a.n /\ b.id = a.id
              ELSE a.ok /\ b.op = "update" /\ b.n = a.n + 1
    /\ calls # <<>> =>
          LET u == calls[Len(calls)]
          IN  /\ (u.op = "update" /\ ~u.ok) => pc = "insert" /\ k = u.n
              /\ (u.op = "insert" /\ ~u.ok) => pc \in {"except", "fin"} /\ err = HttpError
              /\ u.ok => k = u.n + 1

\* C3 (amended): the events are processed one after another; every event the
\* loop reaches gets exactly one update call with its key, first, and exactly
\* one insert call with the same key if and only if that update failed; a
\* failed insert ends the push and the later events get no call; when the push
\* returns, every event has been reached.
C3_UpsertPerReachedEvent ==
    /\ C3_Protocolo
    /\ \A n \in 1..Len(uniq) :
          /\ Cardinality(Updates(n)) <= 1
          /\ Cardinality(Inserts(n)) <= 1
          /\ (k >= 1 /\ n < k) => Cardinality(Updates(n)) = 1
          /\ n > k => Updates(n) = {} /\ Inserts(n) = {}
          /\ Inserts(n) # {} => \E j \in Updates(n) : ~calls[j].ok
    /\ (args.push /\ k >= 1 /\ (pc = "salir" \/ exitCode = 0)) =>
          \A n \in 1..Len(uniq) :
             /\ Cardinality(Updates(n)) = 1
             /\ Cardinality(Inserts(n)) =
                   (IF \E j \in Updates(n) : ~calls[j].ok THEN 1 ELSE 0)

\* A push that returned after updating some events and inserting others.
C3_Witness ==
    /\ exitCode = 0
    /\ args.push
    /\ Len(uniq) >= 3
    /\ \E j \in 1..Len(calls) : calls[j].op = "update" /\ calls[j].ok
    /\ \E j \in 1..Len(calls) : calls[j].op = "insert" /\ calls[j].ok

\* ---- C4
UidsDelIcs == [n \in 1..Len(ics.bloques) |-> ics.bloques[n].uid]

\* C4: every remote call of the push carries the key of the uid that the
\* exported document gives the same event, under the same 1-based counter; and
\* a run over the same snapshots as the previous exporting run assigns the
\* same uids.
C4_SameUidInIcsAndPush ==
    /\ ics.escrito =>
         \A j \in 1..Len(calls) :
            LET c == calls[j]
                b == ics.bloques[c.n]
            IN  /\ c.id = event_id_from_uid(b.uid)
                /\ b.uid[4] = c.n
                /\ IdentidadVevento(b) = EventIdentity(uniq[c.n])
                /\ c.ok => IdentidadRemota(remote[c.id]) = IdentidadVevento(b)
    /\ calls # <<>> => ics.escrito
    /\ (ics.escrito /\ previa.hay /\ htmls = previa.htmls) => UidsDelIcs = previa.uids

\* A second run over the same two weeks as the first, pushing the same events.
C4_Witness ==
    /\ run = 2
    /\ previa.hay
    /\ htmls = previa.htmls
    /\ Len(htmls) = 2
    /\ exitCode = 0
    /\ Len(calls) >= 2
    /\ \E j \in 1..Len(calls) : calls[j].op = "update" /\ calls[j].ok

\* ---- C5
\* C5: exit 1 when a credential is still missing (no browser was started);
\* exit 2 whenever a step of the pipeline raised, after a screenshot attempt;
\* exit 0 only when every step completed without raising.
C5_ExitCodes ==
    /\ pc # "fin" => exitCode = -1
    /\ pc = "fin" => exitCode \in {0, 1, 2}
    /\ cred = "faltan" => pc = "fin" /\ exitCode = 1 /\ driver = "none"
    /\ (err # NoError /\ driver # "none") => pc \in {"except", "fin"}
    /\ (pc = "fin" /\ err # NoError /\ driver # "none") => exitCode = 2 /\ shot
    /\ exitCode = 2 => shot /\ err # NoError /\ driver = "closed"
    /\ shot => err # NoError
    /\ exitCode = 0 =>
          /\ err = NoError
          /\ cred = "ok"
          /\ driver = "closed"
          /\ Len(htmls) = args.weeks
          /\ ics.escrito
          /\ args.push =>
                /\ k = Len(uniq) + 1
                /\ \A n \in 1..Len(uniq) :
                      \E j \in 1..Len(calls) : calls[j].n = n /\ calls[j].ok

\* The push raised after the export: screenshot attempted, status 2.
C5_Witness ==
    /\ pc = "fin"
    /\ exitCode = 2
    /\ shot
    /\ err = HttpError
    /\ ics.escrito

\* ---- C6
\* C6 as stated: a failure of the Date-Range Resolver does not end the run.
C6_Original == ~(pc = "fin" /\ err \in ResolverErrors)

\* C6 (amended): a Date-Range Resolver failure in either parser is not handled
\* per week: it reaches main's handler and ends the whole run with status 2
\* after the screenshot attempt, with nothing exported and nothing pushed.
C6_ResolverFailureEndsRun ==
    /\ (desktop.ran /\ desktop.err \in ResolverErrors) => err = desktop.err
    /\ (movil.ran /\ movil.err \in ResolverErrors) => err = movil.err
    /\ err \in ResolverErrors =>
          /\ pc \in {"except", "fin"}
          /\ ~ics.escrito
          /\ calls = <<>>
          /\ pc = "fin" => exitCode = 2 /\ shot

\* The label failed in the second week, after the first week had given events.
C6_Witness ==
    /\ pc = "fin"
    /\ exitCode = 2
    /\ err \in ResolverErrors
    /\ Len(htmls) = 2
    /\ acumulados # <<>>

\* ---- C7
SinEstructuraTabular == ~html.tabla \/ ~html.thead

\* C7 as stated: without a table (or header row) the tabular parser returns
\* the empty sequence whatever the range label.
C7_Original ==
    (desktop.ran /\ SinEstructuraTabular) => desktop.err = NoError /\ desktop.evs = <<>>

\* C7 (amended): without a table (or header row) the tabular parser returns
\* the empty sequence and main goes on to the mobile parser, provided the range
\* label is readable; the label is resolved before the table is looked for, so
\* with an unreadable label the parser fails with the resolver's error and the
\* mobile parser is not tried.
C7_EmptyWithoutTableGivenLabel ==
    (desktop.ran /\ SinEstructuraTabular) =>
       LET r == parse_fecha_rango(EtiquetaDesktop(html))
       IN  IF r.err = NoError
           THEN /\ desktop.err = NoError
                /\ desktop.evs = <<>>
                /\ pc = "movil" \/ movil.ran
           ELSE /\ desktop.err = r.err
                /\ ~movil.ran
                /\ pc \in {"except", "fin"}

\* No table, a readable label: the mobile parser went on and found events.
C7_Witness ==
    /\ desktop.ran
    /\ ~html.tabla
    /\ desktop.err = NoError
    /\ desktop.evs = <<>>
    /\ movil.ran
    /\ movil.evs # <<>>

\* ---- C8
HeadersDias(h) == IF h.header = <<>> THEN <<>> ELSE LimpiarTodos(Tail(h.header))

\* Every row whose first cell is a time block has valid hours.
BloquesValidos(h) ==
    \A r \in 1..Len(h.filas) :
       (h.filas[r] # <<>> /\ EsBloque(limpiar_texto(h.filas[r][1]))) =>
          /\ HoraValida(limpiar_texto(h.filas[r][1])[1])
          /\ HoraValida(limpiar_texto(h.filas[r][1])[3])

\* The cells that carry a class in a column whose header gives a valid day.
CeldasConFecha(h, anio, mes) ==
    {rc \in UNION {{<<r, c>> : c \in 2..Len(h.filas[r])} : r \in 1..Len(h.filas)} :
        /\ EsBloque(limpiar_texto(h.filas[rc[1]][1]))
        /\ limpiar_texto(h.filas[rc[1]][rc[2]]) # <<>>
        /\ ~EmpiezaSinClases(limpiar_texto(h.filas[rc[1]][rc[2]]))
        /\ rc[2] - 1 <= Len(HeadersDias(h))
        /\ DiaDeHeader(HeadersDias(h)[rc[2] - 1]) # -1
        /\ FechaValida(anio, mes, DiaDeHeader(HeadersDias(h)[rc[2] - 1]))}

\* C8: with a readable label and a table, a column whose date cannot be
\* resolved only drops its own cells: the tabular parser does not raise and
\* emits an event for every other class cell of the rows with a time block.
C8_CellAnomalyOnlyDropsCell ==
    LET r == parse_fecha_rango(EtiquetaDesktop(html))
    IN  (desktop.ran /\ r.err = NoError /\ html.tabla /\ html.thead /\ BloquesValidos(html)) =>
           /\ desktop.err = NoError
           /\ Len(desktop.evs) = Cardinality(CeldasConFecha(html, r.anio, r.mes))

\* ---- C9
\* C9: every event of the mobile parser has a content (the text after the time
\* span) that is not empty and does not start with the "sin clases" marker.
C9_NoSinClasesEvent ==
    (movil.ran /\ movil.err = NoError) =>
       \A n \in 1..Len(movil.evs) :
          /\ movil.evs[n][5] # <<>>
          /\ ~EmpiezaSinClases(movil.evs[n][5])

\* ---- C10
\* C10: against a remote calendar that fails an update only for a key it does
\* not hold and an insert only for a key it holds, the calendar never holds two
\* entries with the same EventIdentity.
C10_OneRemoteEntryPerIdentity ==
    ideal =>
       \A a, b \in DOMAIN remote :
          IdentidadRemota(remote[a]) = IdentidadRemota(remote[b]) => a = b

====
